---------------------------- MODULE Spec2Model ----------------------------
(***************************************************************************)
(* Model of the reactive LTL planner: the off-line RRG planner over the    *)
(* transition system (TS) and the incremental product automaton            *)
(* (planning/ltlrrg.py), and the on-line local RRT planner with its Buchi  *)
(* half-monitor (planning/localrrt.py).                                    *)
(*                                                                         *)
(* Geometry.  The planners are dimension agnostic: every geometric         *)
(* decision goes through dist, steer, intersects and isSimpleSegment.  The *)
(* model instantiates the workspace as a corridor: configurations are the  *)
(* points (x, 0) with x an integer number of length units, so that dist,   *)
(* steer and the straight chains of free_movement are exact in integer     *)
(* arithmetic.  One unit is 1/6 of the length unit of the case study, so   *)
(* eta = [0.5, 1.0] is [3, 6] and the sensing radius 0.5 is 3.             *)
(***************************************************************************)
EXTENDS Integers, Sequences, FiniteSets, TLC

(***************************************************************************)
(* Bounds of the model.                                                    *)
(***************************************************************************)
\* the workspace boundary is the interval [0, GridMax]
GridMax == 15
\* largest value of the iteration cap given to RRGPlanner
MaxIter == 4
\* iterate() calls a host makes directly, after solve() has returned
MaxExtraCalls == 1

(***************************************************************************)
(* Program constants, in model units.                                      *)
(***************************************************************************)
EtaLo == 3
EtaHi == 6
StepSize == 5

Abs(x) == IF x < 0 THEN -x ELSE x
Min(a, b) == IF a <= b THEN a ELSE b
Last(seq) == seq[Len(seq)]
Sgn(x) == IF x < 0 THEN -1 ELSE IF x > 0 THEN 1 ELSE 0

\* RealMetricSpace.dist : the metric applied to the coordinates
Dist(x, y) == Abs(x - y)

(***************************************************************************)
(* Workspace: labeled global regions (already expanded, hence polygons).   *)
(* A region is the set of points with lo <= x <= hi.                       *)
(***************************************************************************)
GlobalRegions ==
    { [lo |-> 0,  hi |-> 1,  symbols |-> {"c"}],
      [lo |-> 5,  hi |-> 8,  symbols |-> {"b"}],
      [lo |-> 14, hi |-> 15, symbols |-> {"a"}] }

\* Boundary.intersects(src): the point lies in the region
IntersectsPoint(r, p) == r.lo <= p /\ p <= r.hi

\* Boundary.intersects(src, dest): the closed segment meets the region
IntersectsSegment(r, s, d) ==
    \E p \in Min(s, d) .. (s + d - Min(s, d)) : IntersectsPoint(r, p)

\* Workspace.intersectingRegions
IntersectingRegions(regions, s, d) ==
    { r \in regions : IntersectsSegment(r, s, d) }

\* Workspace.getSymbols(position): symbols of the regions holding position
RegionSymbols(regions, p) ==
    UNION { r.symbols : r \in { rr \in regions : IntersectsPoint(rr, p) } }

\* robot.getSymbols(conf), global layer
GetSymbols(p) == RegionSymbols(GlobalRegions, p)

(***************************************************************************)
(* Robot model.                                                            *)
(***************************************************************************)
\* robot.sample(): uniform over the workspace boundary box
GlobalSamples == 0 .. GridMax

\* robot.steer: the point of [source, target] at distance
\* min(step, dist(source, target)) from source
Steer(source, target) ==
    IF Dist(source, target) <= StepSize THEN target
    ELSE source + StepSize * Sgn(target - source)

\* the boundary crossings of the segment [u, v]: pairs (region, point) such
\* that membership in the region changes between point and point + 1
Crossings(u, v) ==
    { rp \in GlobalRegions \X (Min(u, v) .. (u + v - Min(u, v))) :
        /\ rp[2] < u + v - Min(u, v)
        /\ IntersectsPoint(rp[1], rp[2]) # IntersectsPoint(rp[1], rp[2] + 1) }

\* robot.isSimpleSegment: the segment crosses the boundary of at most one
\* region, once
IsSimpleSegment(u, v) == Cardinality(Crossings(u, v)) <= 1

(***************************************************************************)
(* Buchi automaton of the global mission (an input of the planners).       *)
(* Mission: visit b and leave it again; until then, once the contaminated  *)
(* zone c was entered, b must not be entered before a was visited.         *)
(***************************************************************************)
BuchiStates == {"qi", "qc", "qb", "qacc"}
BuchiInit == {"qi"}
BuchiAccepting == {"qacc"}

\* Buchi.next_states(q, props)
NextStates(q, props) ==
    CASE q = "qi" ->
            IF "b" \in props THEN {"qb"}
            ELSE IF "c" \in props THEN {"qc"} ELSE {"qi"}
      [] q = "qc" ->
            IF "b" \in props THEN {}
            ELSE IF "a" \in props THEN {"qi"} ELSE {"qc"}
      [] q = "qb" ->
            IF "b" \in props THEN {"qb"} ELSE {"qacc"}
      [] OTHER -> {"qacc"}

\* Buchi.g.has_edge(q, q2)
BuchiHasEdge(q, q2) ==
    \E props \in SUBSET {"a", "b", "c"} : q2 \in NextStates(q, props)

(***************************************************************************)
(* Incremental product automaton (models/product.py).  A product vertex is *)
(* a pair <<x, q>> of a TS vertex and a Buchi state, a product edge a pair *)
(* of product vertices.                                                    *)
(***************************************************************************)
\* IncrementalProduct.addInitialState: (x, q) for every initial q of B
AddInitialState(x, props) == { <<x, q>> : q \in BuchiInit }

\* IncrementalProduct.proj_ts[x]: the Buchi states paired with x
ProjTs(pnodes, x) == { q \in BuchiStates : <<x, q>> \in pnodes }

\* a forward form that emits the moves of every Buchi state, paired with u
\* in the product or not
CheckForwardAllStates(pnodes, u, v, propV) ==
    UNION { { << <<u, q>>, <<v, q2>> >> : q2 \in NextStates(q, propV) } :
            q \in BuchiStates }

\* IncrementalProduct.check, forward form
CheckForward(pnodes, u, v, propV) ==
    UNION { { << <<u, q>>, <<v, q2>> >> : q2 \in NextStates(q, propV) } :
            q \in ProjTs(pnodes, u) }

\* a backward form that, like the forward one, emits edges to product
\* vertices that do not exist yet
CheckBackwardAsForward(pnodes, u, v, propV) ==
    UNION { { << <<u, q>>, <<v, q2>> >> : q2 \in NextStates(q, propV) } :
            q \in ProjTs(pnodes, u) }

\* IncrementalProduct.check, backward form
CheckBackward(pnodes, u, v, propV) ==
    UNION { { << <<u, q>>, <<v, q2>> >> :
                q2 \in NextStates(q, propV) \cap ProjTs(pnodes, v) } :
            q \in ProjTs(pnodes, u) }

\* IncrementalProduct.check(ts, u, v, propV, forward)
Check(pnodes, u, v, propV, forward) ==
    IF forward THEN CheckForward(pnodes, u, v, propV)
    ELSE CheckBackward(pnodes, u, v, propV)

\* the vertices an edge set mentions
Endpoints(E) == { e[1] : e \in E } \cup { e[2] : e \in E }

\* vertices reachable from S along edges in E, S included
RECURSIVE ReachableFrom(_, _)
ReachableFrom(S, E) ==
    LET next == S \cup { e[2] : e \in { ee \in E : ee[1] \in S } }
    IN  IF next = S THEN S ELSE ReachableFrom(next, E)

\* p lies on a cycle of E
OnCycle(p, E) ==
    p \in ReachableFrom({ e[2] : e \in { ee \in E : ee[1] = p } }, E)

\* accepting product vertices reachable from an initial one and on a cycle
Lassos(pnodes, pedges, pinit) ==
    { p \in pnodes : /\ p[2] \in BuchiAccepting
                     /\ p \in ReachableFrom(pinit, pedges)
                     /\ OnCycle(p, pedges) }

\* IncrementalProduct.foundPolicy
FoundPolicy(pnodes, pedges, pinit) == Lassos(pnodes, pedges, pinit) # {}

\* breadth-first search: the shortest ways of extending the paths given
\* to a path that ends at target, never entering a vertex of seen
RECURSIVE ShortestPaths(_, _, _, _)
ShortestPaths(paths, target, pedges, seen) ==
    LET done == { path \in paths : Last(path) = target }
        ends == { Last(path) : path \in paths }
        next == UNION { { Append(path, e[2]) :
                            e \in { ee \in pedges :
                                      /\ ee[1] = Last(path)
                                      /\ ee[2] \notin seen \cup ends } } :
                        path \in paths }
    IN  IF done # {} THEN done
        ELSE IF next = {} THEN {}
        ELSE ShortestPaths(next, target, pedges, seen \cup ends)

\* the ways from an initial product vertex to q
PolicyPrefixes(q, pedges, pinit) ==
    ShortestPaths({ << p >> : p \in pinit }, q, pedges, {})

\* a suffix that stops at a successor of q without closing the cycle
OpenSuffixes(q, pedges) ==
    { << q, e[2] >> : e \in { ee \in pedges : ee[1] = q } }

\* the cycles that start and end at q
PolicySuffixes(q, pedges) ==
    ShortestPaths({ << q, e[2] >> : e \in { ee \in pedges : ee[1] = q } },
                  q, pedges, {})

\* the TS path under a product path: the Buchi component is dropped
Projection(path) == [ i \in 1 .. Len(path) |-> path[i][1] ]

\* IncrementalProduct.globalPolicy: the lassos of least |prefix| + |suffix|
\* with the product paths they project
GlobalPolicy(pnodes, pedges, pinit) ==
    LET lassos == UNION { { [ pa_prefix |-> pre, pa_suffix |-> suf,
                              prefix |-> Projection(pre),
                              suffix |-> Projection(suf) ] :
                            pre \in PolicyPrefixes(q, pedges, pinit),
                            suf \in PolicySuffixes(q, pedges) } :
                          q \in Lassos(pnodes, pedges, pinit) }
    IN  { l \in lassos :
            \A o \in lassos :
               Len(l.prefix) + Len(l.suffix) <= Len(o.prefix) + Len(o.suffix) }

(***************************************************************************)
(* RRG planner (planning/ltlrrg.py).  The planner state is the record      *)
(*   [nodes, prop, edges]   of the TS  and   [pnodes, pedges, pinit]       *)
(* of the checker.                                                         *)
(***************************************************************************)
\* RRGPlanner.nearest: min over the TS vertices; ties fall to iteration order
NearestSet(nodes, p) ==
    { v \in nodes : \A u \in nodes : Dist(p, v) <= Dist(p, u) }

\* far without the rejection of configurations closer than eta[0]
FarNoRejection(nodes, p) == { v \in nodes : Dist(v, p) < EtaHi }

\* RRGPlanner.far
Far(nodes, p) ==
    LET ret == { v \in nodes : Dist(v, p) < EtaHi }
    IN  IF \E v \in ret : Dist(v, p) <= EtaLo THEN {} ELSE ret

\* near without the lower bound 0 < d: the configuration itself is included
NearOrAt(nodes, p) == { v \in nodes : Dist(v, p) < EtaHi }

\* RRGPlanner.near
Near(nodes, p) == { v \in nodes : 0 < Dist(v, p) /\ Dist(v, p) < EtaHi }

\* the forward extension handing check the propositions of the source state
ForwardCheckPropOfSource(newProp, stateProp) == stateProp

\* the proposition set the forward extension hands to check
ForwardCheckProp(newProp, stateProp) == newProp

\* the backward extension handing check the propositions of the new state
BackwardCheckPropOfNew(st, newState, state) == st.prop[newState]

\* the proposition set the backward extension hands to check for the
\* prospective edge (newState, state)
BackwardCheckProp(st, newState, state) == st.prop[state]

\* forward phase without the test of isSimpleSegment
ForwardAcceptsNotSimple(st, state, newConf, newProp) ==
    Check(st.pnodes, state, newConf,
          ForwardCheckProp(newProp, st.prop[state]), TRUE) # {}

\* forward phase: the TS states that get an edge to newConf
ForwardAccepts(st, state, newConf, newProp) ==
    /\ IsSimpleSegment(state, newConf)
    /\ Check(st.pnodes, state, newConf,
             ForwardCheckProp(newProp, st.prop[state]), TRUE) # {}

\* backward phase: condition under which the edge (newState, state) is staged
BackwardAccepts(st, newState, state) ==
    /\ state = Steer(newState, state)
    /\ IsSimpleSegment(newState, state)
    /\ Check(st.checked, newState, state,
             BackwardCheckProp(st, newState, state), FALSE) # {}

\* the new state staged whatever check returned
ForwardQAlways(newConf, sources) == {newConf}

\* the new states Q staged by the forward phase
ForwardQ(newConf, sources) == IF sources # {} THEN {newConf} ELSE {}

\* first phase of iterate, committed
ForwardPhase(st, newConf) ==
    LET newProp == GetSymbols(newConf)
        sources == { s \in Far(st.nodes, newConf) :
                       ForwardAccepts(st, s, newConf, newProp) }
        Q       == ForwardQ(newConf, sources)
        Delta   == { <<s, newConf>> : s \in sources }
        E       == UNION { Check(st.pnodes, s, newConf,
                                 ForwardCheckProp(newProp, st.prop[s]), TRUE) :
                           s \in sources }
    IN  [ nodes  |-> st.nodes \cup Q,
          prop   |-> [ x \in st.nodes \cup Q |->
                         IF x \in st.nodes THEN st.prop[x] ELSE newProp ],
          edges  |-> st.edges \cup Delta,
          pnodes |-> st.pnodes \cup Endpoints(E),
          pedges |-> st.pedges \cup E,
          pinit  |-> st.pinit,
          Q      |-> Q ]

\* a second phase that keeps only the TS edges of this call
BackwardPhaseForgets(st, Q) ==
    [ nodes  |-> st.nodes,
      prop   |-> st.prop,
      edges  |-> { e \in st.edges : e[2] \in Q },
      pnodes |-> st.pnodes,
      pedges |-> st.pedges,
      pinit  |-> st.pinit ]

\* second phase of iterate, committed; Q holds the newly added states and
\* st.checked the product vertices the checker holds when check is called
BackwardPhase(st, Q) ==
    LET pairs == { nv \in Q \X st.nodes :
                     /\ nv[2] \in Near(st.nodes, nv[1])
                     /\ BackwardAccepts(st, nv[1], nv[2]) }
        E     == UNION { Check(st.checked, nv[1], nv[2],
                               BackwardCheckProp(st, nv[1], nv[2]), FALSE) :
                         nv \in pairs }
    IN  [ nodes  |-> st.nodes,
          prop   |-> st.prop,
          edges  |-> st.edges \cup pairs,
          pnodes |-> st.pnodes \cup Endpoints(E),
          pedges |-> st.pedges \cup E,
          pinit  |-> st.pinit ]

\* the assertion closing iterate: every product edge projects on a Buchi edge
IterateAssertion(st) ==
    \A e \in st.pedges : BuchiHasEdge(e[1][2], e[2][2])

\* backward checks issued on the product as it was before the forward
\* phase was committed
ProductBeforeForward(st, fwd) == st.pnodes

\* the product vertices the backward checks read: the forward phase was
\* committed by addStates, addTransitions and update before the second phase
ProductAtBackward(st, fwd) == fwd.pnodes

\* an iterate that extends the TS whether or not a policy was found
IterateRegardless(st, rand, near) ==
    LET newConf == Steer(near, rand)
        fwd     == ForwardPhase(st, newConf)
        bwd     == BackwardPhase([ nodes  |-> fwd.nodes,
                                   prop   |-> fwd.prop,
                                   edges  |-> fwd.edges,
                                   pnodes |-> fwd.pnodes,
                                   pedges |-> fwd.pedges,
                                   pinit  |-> fwd.pinit,
                                   checked |->
                                       ProductAtBackward(st, fwd) ],
                                 fwd.Q)
    IN  [ st      |-> bwd,
          ret     |-> FoundPolicy(bwd.pnodes, bwd.pedges, bwd.pinit),
          ok      |-> IterateAssertion(bwd),
          sampled |-> TRUE ]

\* RRGPlanner.iterate with the sample rand and the nearest state near:
\* the planner state after the call, the value returned, whether the closing
\* assertion held and whether a sample was drawn
Iterate(st, rand, near) ==
    IF FoundPolicy(st.pnodes, st.pedges, st.pinit)
    THEN [ st |-> st, ret |-> TRUE, ok |-> TRUE, sampled |-> FALSE ]
    ELSE LET newConf == Steer(near, rand)
             fwd     == ForwardPhase(st, newConf)
             bwd     == BackwardPhase([ nodes  |-> fwd.nodes,
                                        prop   |-> fwd.prop,
                                        edges  |-> fwd.edges,
                                        pnodes |-> fwd.pnodes,
                                        pedges |-> fwd.pedges,
                                        pinit  |-> fwd.pinit,
                                        checked |->
                                            ProductAtBackward(st, fwd) ],
                                      fwd.Q)
         IN  [ st      |-> bwd,
               ret     |-> FoundPolicy(bwd.pnodes, bwd.pedges, bwd.pinit),
               ok      |-> IterateAssertion(bwd),
               sampled |-> TRUE ]

\* RRGPlanner.__init__: TS and checker seeded with the initial configuration
RRGInit(initConf) ==
    [ nodes  |-> {initConf},
      prop   |-> [ x \in {initConf} |-> GetSymbols(initConf) ],
      edges  |-> {},
      pnodes |-> AddInitialState(initConf, GetSymbols(initConf)),
      pedges |-> {},
      pinit  |-> AddInitialState(initConf, GetSymbols(initConf)) ]

\* the TS and the product part of a planner state
TsOf(st) == [ nodes |-> st.nodes, prop |-> st.prop, edges |-> st.edges ]
PaOf(st) == [ pnodes |-> st.pnodes, pedges |-> st.pedges, pinit |-> st.pinit ]

\* initial configurations of the robot considered
InitConfs == {3, 4, 8}

(***************************************************************************)
(* Potentials of the product automaton (compute_potentials).               *)
(***************************************************************************)
\* float('Inf'): larger than any number of product edges
Inf == (GridMax + 2) * Cardinality(BuchiStates)

\* product vertices lying on a cycle through an accepting vertex
AcceptingCycleStates(pnodes, pedges) ==
    { p \in pnodes :
        \E a \in pnodes :
            /\ a[2] \in BuchiAccepting
            /\ OnCycle(a, pedges)
            /\ p \in ReachableFrom({a}, pedges)
            /\ a \in ReachableFrom({p}, pedges) }

\* one more layer of the reverse breadth-first search: layers[k + 1] holds
\* the vertices whose shortest way to the accepting cycles has k edges
RECURSIVE Layers(_, _, _)
Layers(pnodes, pedges, layers) ==
    LET seen == UNION { layers[i] : i \in 1 .. Len(layers) }
        next == { p \in pnodes \ seen :
                    \E e \in pedges : e[1] = p /\ e[2] \in Last(layers) }
    IN  IF next = {} THEN layers
        ELSE Layers(pnodes, pedges, Append(layers, next))

\* potentials measured to the accepting vertices instead of their cycles
PotentialsToAccepting(pnodes, pedges) ==
    LET layers == Layers(pnodes, pedges,
                         << { p \in AcceptingCycleStates(pnodes, pedges) :
                                p[2] \in BuchiAccepting } >>)
    IN  [ p \in pnodes |->
            IF \E k \in 1 .. Len(layers) : p \in layers[k]
            THEN (CHOOSE k \in 1 .. Len(layers) : p \in layers[k]) - 1
            ELSE Inf ]

\* compute_potentials: reverse breadth-first distance to the accepting cycles
ComputePotentials(pnodes, pedges) ==
    LET layers == Layers(pnodes, pedges,
                         << AcceptingCycleStates(pnodes, pedges) >>)
    IN  [ p \in pnodes |->
            IF \E k \in 1 .. Len(layers) : p \in layers[k]
            THEN (CHOOSE k \in 1 .. Len(layers) : p \in layers[k]) - 1
            ELSE Inf ]

\* a compute_potentials that reports success when an accepting vertex exists
ReturnsAcceptingExists(pnodes, pedges) ==
    \E p \in pnodes : p[2] \in BuchiAccepting

\* the value compute_potentials returns
ComputePotentialsReturn(pnodes, pedges) ==
    AcceptingCycleStates(pnodes, pedges) # {}

(***************************************************************************)
(* The off-line stage the on-line planner starts from: solve() run from    *)
(* the initial configuration 3, drawing the samples 7, 11 and 15.          *)
(***************************************************************************)
OfflineInit == 3
OfflineSamples == << 7, 11, 15 >>

(***************************************************************************)
(* Local requests and obstacles, the sensor, and the robot's local         *)
(* predicates.                                                             *)
(***************************************************************************)
\* radius of the sensing disc
SensingRadius == 3
\* eta of LocalPlanner: spacing of the chain of free_movement
LocalEta == 3

\* the priority function localSpec
LocalSpec == [ survivor |-> 0, fire |-> 1 ]

\* Request(region, name, priority)
Request(lo, hi, name) ==
    [ region   |-> [ lo |-> lo, hi |-> hi, symbols |-> {name} ],
      name     |-> name,
      priority |-> LocalSpec[name] ]

\* the requests that may show up in the corridor
AllRequests ==
    { Request(8, 8, "fire"), Request(6, 6, "survivor"),
      Request(1, 1, "survivor") }

\* the local obstacles that may show up in the corridor
AllObstacles == { [ lo |-> 2, hi |-> 2, symbols |-> {"local_obstacle"} ] }

\* the value None of tracking_req
None == [ name |-> "None" ]

\* the regions the sensing disc centred at conf overlaps
Sensed(regions, conf) ==
    { r \in regions :
        IntersectsSegment(r, conf - SensingRadius, conf + SensingRadius) }

\* sensor.sense(): the snapshots the host may hand to execute at conf
SenseRequests(conf) ==
    { S \in SUBSET AllRequests :
        \A r \in S : r.region \in Sensed({r.region}, conf) }

SenseObstacles(conf) == SUBSET Sensed(AllObstacles, conf)

\* robot.sample(local=True): a point of the sensing disc
LocalSamples(conf) == (conf - SensingRadius) .. (conf + SensingRadius)

\* robot.getSymbols(conf, local=True) with the requests currently sensed
LocalSymbols(requests, conf) ==
    RegionSymbols({ r.region : r \in requests }, conf)

\* robot.collision_free_segment
CollisionFreeSegment(a, b, obstacles) ==
    IntersectingRegions(obstacles, a, b) = {}

\* robot.collision_free: conjunction over the consecutive pairs of the path
CollisionFree(path, obstacles) ==
    \A i \in 1 .. Len(path) - 1 :
        CollisionFreeSegment(path[i], path[i + 1], obstacles)

\* minimum of a non-empty set of numbers
MinOf(S) == CHOOSE m \in S : \A n \in S : m <= n

\* get_actual_potential
GetActualPotential(x, B, pnodes, potential) ==
    LET pa_states == { <<x, q>> : q \in ProjTs(pnodes, x) \cap B }
    IN  IF pa_states = {} THEN Inf
        ELSE MinOf({ potential[p] : p \in pa_states })

\* a monitor that always steps the automaton
MonitorNoShortcut(start, start_prop, stop_prop) ==
    UNION { NextStates(q, stop_prop) : q \in start }

\* the half-monitor
Monitor(start, start_prop, stop_prop) ==
    IF start_prop = stop_prop THEN start
    ELSE UNION { NextStates(q, stop_prop) : q \in start }

\* samples one run of generate_local_plan may draw
MaxSamples == 2
\* execute calls the host makes
MaxCalls == 5

VARIABLES
    ts,             \* planner.ts : [nodes, prop, edges]
    pa,             \* planner.checker : [pnodes, pedges, pinit]
    initConf,       \* robot.initConf
    maxIterations,  \* planner.maxIterations
    iteration,      \* planner.iteration
    solve_pc,       \* "running", "returned" or "raised"
    solve_result,   \* the value solve() returned
    iterate_log,    \* history: what each iterate() call made by solve returned
    extra_calls,    \* history: number of iterate() calls made after solve
    pa_potential,   \* pa.g.node[.]['potential'], set by compute_potentials
    currentConf,    \* robot.currentConf
    requests,       \* LocalPlanner.requests
    obstacles,      \* LocalPlanner.obstacles
    local_plan,     \* LocalPlanner.local_plan (None is the empty sequence)
    tracking_req,   \* LocalPlanner.tracking_req
    trajectory,     \* LocalPlanner.trajectory
    buchi_states,   \* LocalPlanner.buchi_states
    potential,      \* LocalPlanner.potential
    global_target_state, \* LocalPlanner.global_target_state
    lts,            \* LocalPlanner.lts : node -> [parent, global_prop, buchi_states, hit]
    online_pc,      \* "offline", "sense", "move" or "raised"
    nextConf,       \* the configuration execute returned to the host
    check_result,   \* history: what check_local_plan returned in the last call
    generated,      \* history: how generate_local_plan ended in the last call
    calls,          \* history: number of execute calls made
    durations,      \* LocalPlanner.durations, every duration written 0
    sizes,          \* LocalPlanner.sizes, every tree size written 1
    fn_pc,          \* a function called on its own: "idle", "args", "returned"
    fn_args,        \* the objects passed to it, as they are now
    fn_result       \* the value it returned

rrg_vars == << ts, pa, initConf, maxIterations, iteration, solve_pc,
               solve_result, iterate_log, extra_calls >>

local_vars == << pa_potential, currentConf, requests, obstacles, local_plan,
                 tracking_req, trajectory, buchi_states, potential,
                 global_target_state, lts, online_pc, nextConf, check_result,
                 generated, calls, durations, sizes >>

call_vars == << fn_pc, fn_args, fn_result >>

vars == << rrg_vars, local_vars, call_vars >>

\* the planner state as the record Iterate works on
PlannerState ==
    [ nodes |-> ts.nodes, prop |-> ts.prop, edges |-> ts.edges,
      pnodes |-> pa.pnodes, pedges |-> pa.pedges, pinit |-> pa.pinit ]

\* generate_local_plan was not called
NotGenerated(conf) == [ branch |-> "none", dest_state |-> conf ]

\* the on-line planner is not constructed while the off-line stage runs
NotOnline ==
    /\ pa_potential = << >>
    /\ currentConf = initConf
    /\ requests = {}
    /\ obstacles = {}
    /\ local_plan = << >>
    /\ tracking_req = None
    /\ trajectory = << >>
    /\ buchi_states = << >>
    /\ potential = << >>
    /\ global_target_state = initConf
    /\ lts = << >>
    /\ online_pc = "offline"
    /\ nextConf = initConf
    /\ check_result = "none"
    /\ generated = NotGenerated(initConf)
    /\ calls = 0
    /\ durations = << >>
    /\ sizes = << >>

\* no function is called on its own
NoCall == fn_pc = "idle" /\ fn_args = << >> /\ fn_result = << >>

\* RRGPlanner.__init__ for the robot at initConf
PlannerStart ==
    /\ ts = TsOf(RRGInit(initConf))
    /\ pa = PaOf(RRGInit(initConf))
    /\ iteration = 0
    /\ solve_pc = "running"
    /\ solve_result = FALSE
    /\ iterate_log = << >>
    /\ extra_calls = 0
    /\ NotOnline

RRGStart ==
    /\ initConf \in InitConfs
    /\ maxIterations \in 0 .. MaxIter
    /\ PlannerStart
    /\ NoCall

\* solve returning True after any iterate call
SolveReturnsAlways(ret) == TRUE

\* solve never leaving its loop early
SolveReturnsNever(ret) == FALSE

\* what solve does with the value iterate returned
SolveReturns(ret) == ret

\* one turn of the loop of solve: the next iteration number, one iterate call
SolveIterate(rand, near) ==
    /\ solve_pc = "running"
    /\ iteration < maxIterations
    /\ near \in NearestSet(ts.nodes, rand)
    /\ LET r == Iterate(PlannerState, rand, near)
       IN  /\ iteration' = iteration + 1
           /\ ts' = TsOf(r.st)
           /\ pa' = PaOf(r.st)
           /\ iterate_log' = Append(iterate_log, r.ret)
           /\ solve_pc' = IF ~r.ok THEN "raised"
                          ELSE IF SolveReturns(r.ret) THEN "returned"
                          ELSE "running"
           /\ solve_result' = (r.ok /\ SolveReturns(r.ret))
    /\ UNCHANGED << initConf, maxIterations, extra_calls, local_vars,
                    call_vars >>

\* the range of solve is exhausted: solve returns False
SolveExhausted ==
    /\ solve_pc = "running"
    /\ iteration = maxIterations
    /\ solve_pc' = "returned"
    /\ solve_result' = FALSE
    /\ UNCHANGED << ts, pa, initConf, maxIterations, iteration, iterate_log,
                    extra_calls, local_vars, call_vars >>

\* the host calls iterate() itself after solve returned
HostIterate(rand, near) ==
    /\ solve_pc = "returned"
    /\ extra_calls < MaxExtraCalls
    /\ near \in NearestSet(ts.nodes, rand)
    /\ LET r == Iterate(PlannerState, rand, near)
       IN  /\ ts' = TsOf(r.st)
           /\ pa' = PaOf(r.st)
           /\ solve_pc' = IF r.ok THEN "returned" ELSE "raised"
    /\ extra_calls' = extra_calls + 1
    /\ UNCHANGED << initConf, maxIterations, iteration, solve_result,
                    iterate_log, local_vars, call_vars >>

\* the host asks for the off-line policy after solve returned True
HostGlobalPolicy ==
    /\ solve_pc = "returned" /\ solve_result
    /\ fn_pc = "idle"
    /\ fn_result' \in GlobalPolicy(pa.pnodes, pa.pedges, pa.pinit)
    /\ fn_pc' = "returned"
    /\ UNCHANGED << rrg_vars, local_vars, fn_args >>

RRGNext ==
    \/ \E rand \in GlobalSamples, near \in GlobalSamples :
           SolveIterate(rand, near)
    \/ SolveExhausted
    \/ HostGlobalPolicy
    \/ \E rand \in GlobalSamples, near \in GlobalSamples :
           HostIterate(rand, near)

SpecRRG == RRGStart /\ [][RRGNext]_vars

(***************************************************************************)
(* The on-line local planner (LocalPlanner).                               *)
(***************************************************************************)
\* the planner object as a record of its fields
Self ==
    [ currentConf |-> currentConf, requests |-> requests,
      obstacles |-> obstacles, local_plan |-> local_plan,
      tracking_req |-> tracking_req, trajectory |-> trajectory,
      buchi_states |-> buchi_states, potential |-> potential,
      global_target_state |-> global_target_state, lts |-> lts,
      durations |-> durations, sizes |-> sizes ]

\* a straight chain that starts with the current state itself
ChainFromStart(current_state, final_state) ==
    LET dist == Dist(current_state, final_state)
        n    == IF dist = 0 THEN 0 ELSE (dist - 1) \div LocalEta
    IN  [ k \in 1 .. n + 2 |->
            IF k <= n + 1
            THEN current_state
                   + (k - 1) * LocalEta * Sgn(final_state - current_state)
            ELSE final_state ]

\* the straight chain of free_movement, at spacing eta, ending in final_state
Chain(current_state, final_state) ==
    LET dist == Dist(current_state, final_state)
        n    == IF dist = 0 THEN 0 ELSE (dist - 1) \div LocalEta
    IN  [ k \in 1 .. n + 1 |->
            IF k <= n
            THEN current_state + k * LocalEta * Sgn(final_state - current_state)
            ELSE final_state ]

\* LocalPlanner.free_movement
FreeMovement(current_state, final_state) ==
    IF ~IsSimpleSegment(current_state, final_state) THEN << >>
    ELSE Chain(current_state, final_state)

\* a test that accepts a leaf whether or not the tracked request was hit
TestNoHit(self, tree, state) ==
    /\ state \notin ts.nodes
    /\ IsSimpleSegment(state, self.global_target_state)
    /\ CollisionFreeSegment(state, self.global_target_state, self.obstacles)

\* LocalPlanner.test for a state of the local tree
Test(self, tree, state) ==
    /\ state \notin ts.nodes
    /\ self.tracking_req # None => tree[state].hit
    /\ IsSimpleSegment(state, self.global_target_state)
    /\ CollisionFreeSegment(state, self.global_target_state, self.obstacles)

\* whether the tree branch source -> dest passes the half-monitor
BranchMonitored(B) == B # {}

\* a tree branch accepted whatever obstacle it crosses
BranchCollisionIgnored(source_state, dest_state, local_obstacles) == TRUE

\* whether the tree branch source -> dest avoids the local obstacles
BranchCollisionFree(source_state, dest_state, local_obstacles) ==
    CollisionFreeSegment(source_state, dest_state, local_obstacles)

\* one round of the loop of generate_local_plan: steer from source_state
\* towards random_sample, label and monitor the new state, add it to the tree
Extend(self, tree, random_sample, source_state) ==
    LET dest_state == Steer(source_state, random_sample)
        dest_global_prop == GetSymbols(dest_state)
        dest_local_prop == LocalSymbols(self.requests, dest_state)
        source_data == tree[source_state]
        B == Monitor(source_data.buchi_states, source_data.global_prop,
                     dest_global_prop)
        hit == /\ self.tracking_req # None
               /\ \/ self.tracking_req.name \in dest_local_prop
                  \/ source_data.hit
        added == /\ IsSimpleSegment(source_state, dest_state)
                 /\ BranchMonitored(B)
                 /\ BranchCollisionFree(source_state, dest_state,
                                        self.obstacles)
        grown == [ x \in DOMAIN tree \cup {dest_state} |->
                     IF x = dest_state
                     THEN [ parent |-> IF x \in DOMAIN tree THEN tree[x].parent
                                       ELSE source_state,
                            global_prop |-> dest_global_prop,
                            buchi_states |-> B,
                            hit |-> hit ]
                     ELSE tree[x] ]
        after == IF added THEN grown ELSE tree
    IN  [ lts  |-> after,
          dest |-> IF dest_state \in DOMAIN after THEN {dest_state} ELSE {} ]

\* the while loop of generate_local_plan run for at most k samples: the
\* trees and accepted leaves it can end with
RECURSIVE Grow(_, _, _, _)
Grow(self, tree, dest, k) ==
    IF \E d \in dest : Test(self, tree, d)
    THEN { [ lts |-> tree, dest_state |-> d ] : d \in dest }
    ELSE IF k = 0 THEN {}
    ELSE UNION { LET r == Extend(self, tree, sn[1], sn[2])
                 IN  Grow(self, r.lts, r.dest, k - 1) :
                 sn \in { x \in LocalSamples(self.currentConf) \X DOMAIN tree :
                            x[2] \in NearestSet(DOMAIN tree, x[1]) } }

\* nx.shortest_path(lts, root, node)[1:]
RECURSIVE PathTo(_, _, _)
PathTo(tree, root, node) ==
    IF node = root THEN << >>
    ELSE Append(PathTo(tree, root, tree[node].parent), node)

\* the local tree holding only the current configuration
RootTree(self) ==
    [ x \in {self.currentConf} |->
        [ parent |-> self.currentConf,
          global_prop |-> GetSymbols(self.currentConf),
          buchi_states |-> Last(self.buchi_states),
          hit |-> /\ self.tracking_req # None
                  /\ self.tracking_req.name
                         \in LocalSymbols(self.requests, self.currentConf) ] ]

\* LocalPlanner.generate_local_plan: the plans it can return
GenerateLocalPlan(self) ==
    LET state == self.currentConf
        target == self.global_target_state
    IN  IF /\ self.requests = {} /\ self.obstacles # {}
           /\ ~IsSimpleSegment(state, target)
        THEN { [ raised |-> TRUE, local_plan |-> << >>, lts |-> self.lts,
                 nr_nodes |-> -1,
                 branch |-> "raised", dest_state |-> state ] }
        ELSE IF /\ self.requests = {}
                /\ \/ self.obstacles = {}
                   \/ CollisionFreeSegment(state, target, self.obstacles)
                /\ FreeMovement(state, target) # << >>
        THEN { [ raised |-> FALSE, local_plan |-> FreeMovement(state, target),
                 lts |-> self.lts, nr_nodes |-> -1,
                 branch |-> "chain", dest_state |-> state ] }
        ELSE { [ raised |-> FALSE,
                 local_plan |-> PathTo(g.lts, state, g.dest_state)
                                  \o FreeMovement(g.dest_state, target),
                 lts |-> g.lts, nr_nodes |-> Cardinality(DOMAIN g.lts),
                 branch |-> "tree", dest_state |-> g.dest_state ] :
               g \in Grow(self, RootTree(self), {state}, MaxSamples) }

\* LocalPlanner.local_plan_hit: "True", "False", or "raised" for the assertion
LocalPlanHit(self, target) ==
    IF self.local_plan = << >> THEN "False"
    ELSE IF Last(self.local_plan) \notin ts.nodes THEN "raised"
    ELSE IF \E i \in 1 .. Len(self.local_plan) :
                target.name \in LocalSymbols(self.requests, self.local_plan[i])
    THEN "True" ELSE "False"

\* min(requests, key=priority): any request of least priority value
HighestPriorityReqs(reqs) ==
    { r \in reqs : \A o \in reqs : r.priority <= o.priority }

\* the request check_local_plan tracks when requests is non-empty
Retarget(tracking, highest_priority_req) ==
    IF tracking = None \/ tracking.priority > highest_priority_req.priority
    THEN highest_priority_req
    ELSE tracking

\* check_local_plan leaving the tracked request alone when requests is empty
KeepTarget(tracking) == tracking

\* the value check_local_plan gives tracking_req when requests is empty
ResetTarget(tracking) == None

\* the collision test closing check_local_plan
PlanCollisionFree(self) ==
    IF Last(self.local_plan) \notin ts.nodes THEN "raised"
    ELSE IF CollisionFree(self.local_plan, self.obstacles) THEN "True"
    ELSE "False"

\* LocalPlanner.check_local_plan: the tracked request it leaves and its result
CheckLocalPlan(self) ==
    IF self.requests # {}
    THEN { LET t == Retarget(self.tracking_req, hp)
           IN  [ tracking_req |-> t, result |-> LocalPlanHit(self, t) ] :
           hp \in HighestPriorityReqs(self.requests) }
    ELSE { [ tracking_req |-> ResetTarget(self.tracking_req),
             result |-> IF self.local_plan = << >> THEN "False"
                        ELSE PlanCollisionFree(self) ] }

\* the targets of the product edges leaving (state, q), q a tracked Buchi state
PaNextStates(self, state) ==
    { e[2] : e \in { ee \in pa.pedges :
                       /\ ee[1][1] = state
                       /\ ee[1][2] \in Last(self.buchi_states) } }

\* the candidates of min(pa_next_states, key=potential)
OptPaNextStates(next_states) ==
    { n \in next_states :
        \A o \in next_states : pa_potential[n] <= pa_potential[o] }

\* LocalPlanner.min_potential_global_state: raises when no product edge
\* leaves the tracked states (unpacking of an empty zip) and when the
\* tie-break branch calls remove on a tuple
MinPotentialGlobalState(self, state) ==
    LET pa_next_states == PaNextStates(self, state)
    IN  IF pa_next_states = {} THEN { [ raised |-> TRUE, state |-> state ] }
        ELSE { IF Last(self.potential) = 0 /\ pa_potential[opt] = 0
               THEN [ raised |-> TRUE, state |-> state ]
               ELSE [ raised |-> FALSE, state |-> opt[1] ] :
               opt \in OptPaNextStates(pa_next_states) }

\* meta data appended only by the calls that grew a tree
MetaDataOfTrees(self, nr_nodes) ==
    IF nr_nodes > 0
    THEN [ self EXCEPT !.durations = Append(@, 0), !.sizes = Append(@, 1) ]
    ELSE self

\* the meta data execute appends after the timed block; execute reads of
\* nr_nodes only whether it is positive (a tree was grown) or -1
MetaData(self, nr_nodes) ==
    [ self EXCEPT !.durations = Append(@, 0),
                  !.sizes = Append(@, IF nr_nodes > 0 THEN 1 ELSE -1) ]

\* LocalPlanner.update followed by local_plan.pop(0)
Update(self) ==
    LET new_conf == self.local_plan[1]
        prop == GetSymbols(new_conf)
        prev_prop == GetSymbols(self.currentConf)
        B == Monitor(Last(self.buchi_states), prev_prop, prop)
    IN  [ self EXCEPT
            !.trajectory = Append(@, new_conf),
            !.buchi_states = Append(@, B),
            !.potential = IF new_conf \in ts.nodes
                          THEN Append(@, GetActualPotential(new_conf, B,
                                            pa.pnodes, pa_potential))
                          ELSE @,
            !.local_plan = Tail(@) ]

\* execute from the check of the local plan on
ExecutePlan(self) ==
    UNION { IF c.result = "raised"
            THEN { [ self |-> [ self EXCEPT !.tracking_req = c.tracking_req ],
                     pc |-> "raised", check |-> "raised",
                     generated |-> NotGenerated(self.currentConf) ] }
            ELSE IF c.result = "True"
            THEN { [ self |-> Update(MetaData([ self EXCEPT
                                         !.tracking_req = c.tracking_req ],
                                       -1)),
                     pc |-> "move", check |-> "True",
                     generated |-> NotGenerated(self.currentConf) ] }
            ELSE { IF g.raised
                   THEN [ self |-> [ self EXCEPT
                                       !.tracking_req = c.tracking_req ],
                          pc |-> "raised", check |-> "False",
                          generated |-> [ branch |-> g.branch,
                                          dest_state |-> g.dest_state ] ]
                   ELSE [ self |-> Update(MetaData([ self EXCEPT
                                              !.tracking_req = c.tracking_req,
                                              !.local_plan = g.local_plan,
                                              !.lts = g.lts ], g.nr_nodes)),
                          pc |-> "move", check |-> "False",
                          generated |-> [ branch |-> g.branch,
                                          dest_state |-> g.dest_state ] ] :
                   g \in GenerateLocalPlan([ self EXCEPT
                                               !.tracking_req = c.tracking_req ]) } :
            c \in CheckLocalPlan(self) }

\* an execute that, away from the TS vertices, falls back on the initial
\* configuration as its global target
ExecuteOutcomesFallBack(self0, reqs, obsts) ==
    LET self == [ self0 EXCEPT !.requests = reqs, !.obstacles = obsts ]
    IN  IF self.currentConf \in ts.nodes
        THEN UNION { IF m.raised
                     THEN { [ self |-> self, pc |-> "raised", check |-> "none",
                              generated |-> NotGenerated(self.currentConf) ] }
                     ELSE ExecutePlan([ self EXCEPT
                                          !.global_target_state = m.state ]) :
                     m \in MinPotentialGlobalState(self, self.currentConf) }
        ELSE ExecutePlan([ self EXCEPT
                             !.global_target_state = self.trajectory[1] ])

\* LocalPlanner.execute: the states it can leave the planner in
ExecuteOutcomes(self0, reqs, obsts) ==
    LET self == [ self0 EXCEPT !.requests = reqs, !.obstacles = obsts ]
    IN  IF self.currentConf \in ts.nodes
        THEN UNION { IF m.raised
                     THEN { [ self |-> self, pc |-> "raised", check |-> "none",
                              generated |-> NotGenerated(self.currentConf) ] }
                     ELSE ExecutePlan([ self EXCEPT
                                          !.global_target_state = m.state ]) :
                     m \in MinPotentialGlobalState(self, self.currentConf) }
        ELSE ExecutePlan(self)

\* the off-line structures execute reads: TS, product, potentials
GlobalState == [ ts |-> ts, pa |-> pa, pa_potential |-> pa_potential ]

\* an execute that stores the vertices of its local tree in the global TS
TreeIntoGlobal(global, self) ==
    [ global EXCEPT
        !.ts = [ nodes |-> @.nodes \cup DOMAIN self.lts,
                 prop |-> [ x \in @.nodes \cup DOMAIN self.lts |->
                              GetSymbols(x) ],
                 edges |-> @.edges ] ]

\* the off-line structures after an execute call that left the planner as
\* self: the call only reads them, the local tree is a Ts of its own
ExecuteGlobal(global, self) == global

\* the host calls execute with the snapshot the sensor took
Execute(reqs, obsts) ==
    /\ online_pc = "sense"
    /\ calls < MaxCalls
    /\ \E o \in ExecuteOutcomes(Self, reqs, obsts) :
          /\ requests' = o.self.requests
          /\ obstacles' = o.self.obstacles
          /\ local_plan' = o.self.local_plan
          /\ tracking_req' = o.self.tracking_req
          /\ trajectory' = o.self.trajectory
          /\ buchi_states' = o.self.buchi_states
          /\ potential' = o.self.potential
          /\ global_target_state' = o.self.global_target_state
          /\ lts' = o.self.lts
          /\ durations' = o.self.durations
          /\ sizes' = o.self.sizes
          /\ online_pc' = o.pc
          /\ check_result' = o.check
          /\ generated' = o.generated
          /\ nextConf' = IF o.pc = "move" THEN Last(o.self.trajectory)
                         ELSE nextConf
          /\ \E g \in { ExecuteGlobal(GlobalState, o.self) } :
                /\ ts' = g.ts
                /\ pa' = g.pa
                /\ pa_potential' = g.pa_potential
    /\ calls' = calls + 1
    /\ UNCHANGED << initConf, maxIterations, iteration, solve_pc,
                    solve_result, iterate_log, extra_calls, currentConf,
                    call_vars >>

\* the host enforces the movement: robot.move(nextConf)
Move ==
    /\ online_pc = "move"
    /\ currentConf' = nextConf
    /\ online_pc' = "sense"
    /\ UNCHANGED << rrg_vars, pa_potential, requests, obstacles, local_plan,
                    tracking_req, trajectory, buchi_states, potential,
                    global_target_state, lts, nextConf, check_result,
                    generated, calls, durations, sizes, call_vars >>

\* the off-line stage of the on-line runs: solve() with the samples fixed
OfflineStart ==
    /\ RRGStart
    /\ initConf = OfflineInit
    /\ maxIterations = Len(OfflineSamples)

OfflineIterate ==
    /\ iteration < Len(OfflineSamples)
    /\ \E near \in GlobalSamples :
           SolveIterate(OfflineSamples[iteration + 1], near)

\* the host after solve() returned True: compute_potentials, then
\* LocalPlanner.__init__
StartOnline ==
    /\ online_pc = "offline"
    /\ solve_pc = "returned" /\ solve_result
    /\ ComputePotentialsReturn(pa.pnodes, pa.pedges)
    /\ \E pot \in { ComputePotentials(pa.pnodes, pa.pedges) } :
          /\ pa_potential' = pot
          /\ potential' = << GetActualPotential(initConf,
                                 { p[2] : p \in pa.pinit }, pa.pnodes, pot) >>
    /\ currentConf' = initConf
    /\ requests' = {}
    /\ obstacles' = {}
    /\ local_plan' = << >>
    /\ tracking_req' = None
    /\ trajectory' = << initConf >>
    /\ buchi_states' = << { p[2] : p \in pa.pinit } >>
    /\ global_target_state' = initConf
    /\ lts' = << >>
    /\ online_pc' = "sense"
    /\ UNCHANGED << rrg_vars, nextConf, check_result, generated, calls,
                    durations, sizes, call_vars >>

LocalNext ==
    \/ OfflineIterate
    \/ StartOnline
    \/ \E reqs \in SenseRequests(currentConf),
          obsts \in SenseObstacles(currentConf) : Execute(reqs, obsts)
    \/ Move

SpecLocal == OfflineStart /\ [][LocalNext]_vars

\* the runs in which nothing local is ever sensed: solve() on any samples,
\* then execute with empty snapshots and the robot moved as told
FollowNext ==
    \/ \E rand \in GlobalSamples, near \in GlobalSamples :
          SolveIterate(rand, near)
    \/ SolveExhausted
    \/ StartOnline
    \/ Execute({}, {})
    \/ Move

SpecFollow == RRGStart /\ [][FollowNext]_vars

(***************************************************************************)
(* Functions of the planning modules called on their own.                  *)
(***************************************************************************)
\* the planner objects exist but neither planner runs
Standalone ==
    /\ initConf = OfflineInit
    /\ maxIterations = 0
    /\ PlannerStart

GlobalProps == SUBSET {"a", "b", "c"}

\* monitor(start, buchi, start_prop, stop_prop) seen from its caller: the
\* set passed as start after the call, and the set returned
MonitorCall(args) ==
    [ start |-> args.start,
      stop |-> Monitor(args.start, args.start_prop, args.stop_prop) ]

MonitorInit ==
    /\ Standalone
    /\ fn_pc = "args"
    /\ fn_args \in [ start : SUBSET BuchiStates, start_prop : GlobalProps,
                     stop_prop : GlobalProps ]
    /\ fn_result = << >>

CallMonitor ==
    /\ fn_pc = "args"
    /\ \E r \in { MonitorCall(fn_args) } :
          /\ fn_result' = r.stop
          /\ fn_args' = [ fn_args EXCEPT !.start = r.start ]
    /\ fn_pc' = "returned"
    /\ UNCHANGED << rrg_vars, local_vars >>

MonitorNext == CallMonitor

SpecMonitor == MonitorInit /\ [][MonitorNext]_vars

\* product automata compute_potentials is called on: three vertices, any
\* edges between them, the first vertex initial
PotentialNodeSets ==
    { { <<3, "qi">>, <<7, "qb">>, <<11, "qacc">> },
      { <<3, "qi">>, <<11, "qacc">>, <<15, "qacc">> } }

PotentialsInit ==
    /\ Standalone
    /\ fn_pc = "args"
    /\ \E pnodes \in PotentialNodeSets :
          fn_args \in [ pnodes : {pnodes}, pedges : SUBSET (pnodes \X pnodes),
                        pinit : { { <<3, "qi">> } } ]
    /\ fn_result = << >>

\* compute_potentials(checker): the potentials stored, the value returned
CallComputePotentials ==
    /\ fn_pc = "args"
    /\ fn_result' =
          [ ret |-> ComputePotentialsReturn(fn_args.pnodes, fn_args.pedges),
            potential |-> ComputePotentials(fn_args.pnodes, fn_args.pedges) ]
    /\ fn_pc' = "returned"
    /\ UNCHANGED << rrg_vars, local_vars, fn_args >>

PotentialsNext == CallComputePotentials

SpecPotentials == PotentialsInit /\ [][PotentialsNext]_vars

(***************************************************************************)
(* Planar boundaries (spaces/maps2d.py), their coordinates integers.       *)
(***************************************************************************)
\* largest coordinate of the planar shapes constructed
CoordMax == 2
Coords == 0 .. CoordMax

\* BoxBoundary2D.__init__: whether its assertions fail
BoxBoundary2DRaises(ranges) ==
    ~ \A i \in 1 .. 2 : ranges[i][1] <= ranges[i][2]

\* BallBoundary2D.__init__: whether it raises
BallBoundary2DRaises(center, radius) ==
    Len(center) # 2 \/ ~ (radius > 0)

ShapeInit ==
    /\ Standalone
    /\ fn_pc = "args"
    /\ fn_args \in [ ranges : (Coords \X Coords) \X (Coords \X Coords),
                     center : { << 1, 1 >> },
                     radius : -1 .. 1 ]
    /\ fn_result = << >>

ConstructBox ==
    /\ fn_pc = "args"
    /\ fn_result' = [ cls |-> "BoxBoundary2D",
                      raised |-> BoxBoundary2DRaises(fn_args.ranges) ]
    /\ fn_pc' = "returned"
    /\ UNCHANGED << rrg_vars, local_vars, fn_args >>

ConstructBall ==
    /\ fn_pc = "args"
    /\ fn_result' = [ cls |-> "BallBoundary2D",
                      raised |-> BallBoundary2DRaises(fn_args.center,
                                                      fn_args.radius) ]
    /\ fn_pc' = "returned"
    /\ UNCHANGED << rrg_vars, local_vars, fn_args >>

ShapeNext == ConstructBox \/ ConstructBall

SpecShape == ShapeInit /\ [][ShapeNext]_vars

\* the planar points and the boxes that construct
Points2D == Coords \X Coords
Boxes2D ==
    { ranges \in (Coords \X Coords) \X (Coords \X Coords) :
         ~BoxBoundary2DRaises(ranges) }

\* a / b <= c / d for fractions << a, b >> and << c, d >>, b and d not zero
FracLeq(x, y) == (x[1] * y[2] - y[1] * x[2]) * (x[2] * y[2]) <= 0

\* dest - src on two points: Point is a namedtuple (coords, hash) that
\* defines no subtraction, the expression raises TypeError
PointDifference(dest, src) == [ raised |-> TRUE, value |-> << >> ]

\* BoxBoundary2D.intersects, the lines after diff: u and v start at 0 and
\* 1 and are overwritten, on an axis the segment moves along, by the
\* parameters of the low and of the high face; abs(diff) < eps is diff = 0
\* on integers
SlabTest(ranges, src, diff) ==
    LET u(i) == IF diff[i] = 0 THEN << 0, 1 >>
                ELSE << ranges[i][1] - src[i], diff[i] >>
        v(i) == IF diff[i] = 0 THEN << 1, 1 >>
                ELSE << ranges[i][2] - src[i], diff[i] >>
    IN  IF \E i \in 1 .. 2 :
              /\ diff[i] = 0
              /\ ~ (ranges[i][1] <= src[i] /\ src[i] <= ranges[i][2])
        THEN FALSE
        ELSE \A i \in 1 .. 2 : \A j \in 1 .. 2 : FracLeq(u(i), v(j))

\* BoxBoundary2D.intersects(src, dest); dest is << >> for None
BoxIntersects(ranges, src, dest) ==
    IF dest # << >>
    THEN LET diff == PointDifference(dest, src)
         IN  IF diff.raised
             THEN [ raised |-> TRUE, value |-> FALSE ]
             ELSE [ raised |-> FALSE,
                    value  |-> SlabTest(ranges, src, diff.value) ]
    ELSE [ raised |-> FALSE,
           value  |-> /\ ranges[1][1] <= src[1] /\ src[1] <= ranges[1][2]
                      /\ ranges[2][1] <= src[2] /\ src[2] <= ranges[2][2] ]

IntersectsInit ==
    /\ Standalone
    /\ fn_pc = "args"
    /\ fn_args \in [ ranges : Boxes2D,
                     src    : Points2D,
                     dest   : Points2D \cup { << >> } ]
    /\ fn_result = << >>

CallIntersects ==
    /\ fn_pc = "args"
    /\ LET r == BoxIntersects(fn_args.ranges, fn_args.src, fn_args.dest)
       IN  IF r.raised
           THEN fn_pc' = "raised" /\ fn_result' = fn_result
           ELSE fn_pc' = "returned" /\ fn_result' = r.value
    /\ UNCHANGED << rrg_vars, local_vars, fn_args >>

IntersectsNext == CallIntersects

SpecIntersects == IntersectsInit /\ [][IntersectsNext]_vars

(***************************************************************************)
(* Workspace (spaces/base.py) called on its own.  The workspace object is  *)
(* fn_args : [globalRegions, localRegions, globalSymbols, localSymbols],   *)
(* localRegions a list; fn_result is the set getSymbols returned last.     *)
(***************************************************************************)
\* longest list of local regions
MaxLocalRegions == 2

\* the regions handed to the workspace
WsRegions ==
    { [lo |-> 0, hi |-> 1, symbols |-> {"r1"}],
      [lo |-> 1, hi |-> 2, symbols |-> {"r2"}],
      [lo |-> 2, hi |-> 2, symbols |-> {"r1"}] }

\* the elements of a list
Elements(list) == { list[i] : i \in 1 .. Len(list) }

\* set(itertools.chain.from_iterable(region.symbols for region in regions))
SymbolsOf(regions) == UNION { r.symbols : r \in regions }

\* list.remove(x): the list without the first occurrence of x
RECURSIVE ListRemove(_, _)
ListRemove(list, x) ==
    IF list = << >> THEN << >>
    ELSE IF list[1] = x THEN Tail(list)
    ELSE << list[1] >> \o ListRemove(Tail(list), x)

\* Workspace.__init__
WorkspaceNew(globalRegions, localRegions) ==
    [ globalRegions |-> globalRegions,
      localRegions  |-> localRegions,
      globalSymbols |-> SymbolsOf(globalRegions),
      localSymbols  |-> SymbolsOf(Elements(localRegions)) ]

\* Workspace.addRegion
AddRegion(ws, region, local) ==
    IF local
    THEN [ ws EXCEPT !.localRegions = Append(@, region),
                     !.localSymbols = @ \cup region.symbols ]
    ELSE [ ws EXCEPT !.globalRegions = @ \cup {region},
                     !.globalSymbols = @ \cup region.symbols ]

\* Workspace.removeRegion, for a region the selected layer holds or, in the
\* global layer, any region
RemoveRegion(ws, region, local, update) ==
    IF local
    THEN LET rest == ListRemove(ws.localRegions, region)
         IN  [ ws EXCEPT !.localRegions = rest,
                         !.localSymbols = IF update
                                          THEN SymbolsOf(Elements(rest))
                                          ELSE @ ]
    ELSE LET rest == ws.globalRegions \ {region}
         IN  [ ws EXCEPT !.globalRegions = rest,
                         !.globalSymbols = IF update THEN SymbolsOf(rest)
                                           ELSE @ ]

\* Workspace.getSymbols; position is << >> for None and << p >> for a point
WsGetSymbols(ws, position, local) ==
    IF position = << >>
    THEN IF local THEN ws.localSymbols ELSE ws.globalSymbols
    ELSE RegionSymbols(IF local THEN Elements(ws.localRegions)
                       ELSE ws.globalRegions, position[1])

Positions == { << >> } \cup { << p >> : p \in Coords }

WorkspaceInit ==
    /\ Standalone
    /\ fn_pc = "args"
    /\ \E G \in SUBSET WsRegions,
          L \in { << >> } \cup { << r >> : r \in WsRegions } :
          fn_args = WorkspaceNew(G, L)
    /\ fn_result = {}

CallAddRegion(region, local) ==
    /\ fn_pc # "raised"
    /\ local => Len(fn_args.localRegions) < MaxLocalRegions
    /\ fn_args' = AddRegion(fn_args, region, local)
    /\ UNCHANGED << rrg_vars, local_vars, fn_pc, fn_result >>

CallRemoveRegion(region, local, update) ==
    /\ fn_pc # "raised"
    /\ IF local /\ region \notin Elements(fn_args.localRegions)
       THEN fn_pc' = "raised" /\ fn_args' = fn_args
       ELSE /\ fn_args' = RemoveRegion(fn_args, region, local, update)
            /\ fn_pc' = fn_pc
    /\ UNCHANGED << rrg_vars, local_vars, fn_result >>

CallGetSymbols(position, local) ==
    /\ fn_pc # "raised"
    /\ fn_result' = WsGetSymbols(fn_args, position, local)
    /\ fn_pc' = "returned"
    /\ UNCHANGED << rrg_vars, local_vars, fn_args >>

WorkspaceNext ==
    \/ \E region \in WsRegions, local \in BOOLEAN :
          CallAddRegion(region, local)
    \/ \E region \in WsRegions, local \in BOOLEAN, update \in BOOLEAN :
          CallRemoveRegion(region, local, update)
    \/ \E position \in Positions, local \in BOOLEAN :
          CallGetSymbols(position, local)

SpecWorkspace == WorkspaceInit /\ [][WorkspaceNext]_vars

(***************************************************************************)
(* Properties of the RRG planner.                                          *)
(***************************************************************************)
\* C2: at the end of every iterate call, every product edge ((x,q),(x2,q2))
\* has a Buchi transition from q to q2 enabled by the propositions of x2,
\* and the assertion closing iterate has not failed.
C2_ProductEdgesFollowBuchi ==
    /\ solve_pc # "raised"
    /\ \A e \in pa.pedges :
          /\ e[2][1] \in ts.nodes
          /\ e[2][2] \in NextStates(e[1][2], ts.prop[e[2][1]])

\* C2 witness: the product holds an edge made by a forward extension and
\* the reverse edge made by a backward extension
C2_Witness ==
    \E e \in pa.pedges, f \in pa.pedges :
        /\ e[1][1] = f[2][1] /\ e[2][1] = f[1][1] /\ e[1][1] # e[2][1]
        /\ ts.prop[e[1][1]] # ts.prop[e[2][1]]

\* C3: whenever solve has returned True, the product holds an accepting
\* vertex reachable from an initial product vertex and lying on a cycle.
C3_SolveTrueHasLasso ==
    (solve_pc = "returned" /\ solve_result) =>
        \E p \in pa.pnodes :
            /\ p[2] \in BuchiAccepting
            /\ p \in ReachableFrom(pa.pinit, pa.pedges)
            /\ \E e \in pa.pedges :
                   e[1] = p /\ p \in ReachableFrom({e[2]}, pa.pedges)

\* C3 witness: solve returned True after three iterations
C3_Witness ==
    solve_pc = "returned" /\ solve_result /\ iteration >= 3 /\ extra_calls = 0

\* the record solve keeps of its run agrees with its contract
SolveContract ==
    /\ solve_pc # "raised"
    /\ iteration <= maxIterations
    /\ Len(iterate_log) = iteration
    /\ \A i \in 1 .. iteration - 1 : ~iterate_log[i]
    /\ solve_pc = "running" => \A i \in 1 .. iteration : ~iterate_log[i]
    /\ solve_pc = "returned" =>
          IF solve_result
          THEN iteration >= 1 /\ iterate_log[iteration]
          ELSE iteration = maxIterations /\ \A i \in 1 .. iteration : ~iterate_log[i]

\* every step of a running solve runs one more iteration of the bounded
\* range or returns, and a returned solve never runs again
SolveVariant ==
    /\ solve_pc = "running" =>
          \/ iteration' = iteration + 1 /\ iteration' <= maxIterations
          \/ solve_pc' = "returned" /\ iteration' = iteration
    /\ solve_pc # "running" =>
          /\ solve_pc' # "running"
          /\ iteration' = iteration /\ solve_result' = solve_result

\* C4: solve terminates; it returns True at the first iteration whose
\* iterate reports a policy, otherwise False after exactly maxIterations
\* iterate calls, never raising, and self.iteration counts the iterations run.
C4_SolveTerminates == [] SolveContract /\ [][SolveVariant]_vars

\* C4 witness: solve returned False after running all its iterations
C4_Witness ==
    solve_pc = "returned" /\ ~solve_result /\ maxIterations = MaxIter
    /\ iteration = MaxIter

\* C5: any two distinct TS vertices are at distance at least eta[0]; more
\* precisely no vertex is added within distance eta[0] of another one.
C5_Dispersion ==
    \A u \in ts.nodes, v \in ts.nodes : u # v => Dist(u, v) > EtaLo

\* C5 witness: three vertices, two of them as close as the planner allows
C5_Witness ==
    /\ Cardinality(ts.nodes) >= 3
    /\ \E u \in ts.nodes, v \in ts.nodes : Dist(u, v) = EtaLo + 1

\* C6: every TS edge, forward or backward, is a simple segment.
C6_EdgesSimple == \A e \in ts.edges : IsSimpleSegment(e[1], e[2])

\* C6 witness: the TS holds an edge and its reverse, crossing a boundary
C6_Witness ==
    \E e \in ts.edges :
        /\ <<e[2], e[1]>> \in ts.edges
        /\ Crossings(e[1], e[2]) # {}

\* C7: every TS vertex has at least one product vertex over it.
C7_VertexHasProductState ==
    \A x \in ts.nodes : ProjTs(pa.pnodes, x) # {}

\* C7 witness: a TS of four vertices
C7_Witness == Cardinality(ts.nodes) >= 4 /\ iteration >= 3

\* C21: across iterate calls the vertex and edge sets of the TS and of the
\* product only grow, and the propositions stored on a TS vertex never
\* change.
C21_GrowOnly ==
    [][ /\ ts.nodes \subseteq ts'.nodes
        /\ ts.edges \subseteq ts'.edges
        /\ pa.pnodes \subseteq pa'.pnodes
        /\ pa.pedges \subseteq pa'.pedges
        /\ \A x \in ts.nodes : ts'.prop[x] = ts.prop[x] ]_vars

\* several iterate calls, made by solve and by the host, have extended a TS
\* that holds edges
C21_Witness ==
    /\ iteration >= 2 /\ extra_calls >= 1
    /\ Cardinality(ts.edges) >= 3
    /\ Cardinality(pa.pedges) >= 3

\* the Buchi states q2 with a product edge ((x, q), (x2, q2))
EdgeTargets(pedges, x, q, x2) ==
    { e[2][2] : e \in { ee \in pedges :
                          ee[1] = << x, q >> /\ ee[2][1] = x2 } }

C26_EdgesSymmetric ==
    \A e \in ts.edges : << e[2], e[1] >> \in ts.edges

C28_ProductReachable ==
    /\ pa.pnodes \subseteq ReachableFrom(pa.pinit, pa.pedges)
    /\ \A pe \in pa.pedges : pe[1] \in ReachableFrom(pa.pinit, pa.pedges)

\* a product vertex that is neither initial nor a successor of an initial
\* vertex: it is reached through an edge whose source was itself added by
\* an earlier check
C28_Witness ==
    \E p \in pa.pnodes :
       /\ p \notin pa.pinit
       /\ \A pe \in pa.pedges : pe[2] = p => pe[1] \notin pa.pinit
       /\ \E pe \in pa.pedges : pe[2] = p

\* the TS vertices reachable from the initial one along TS edges
TsReachable(t) == ReachableFrom({initConf}, t.edges)

\* C37: an iterate call adds at most one vertex to the TS, and at the end
\* of every iteration every TS vertex other than the initial one has an
\* incoming TS edge and is reachable from the initial vertex along TS
\* edges; the TS has no self-loop edge.
C37_TsGrowsConnected ==
    [][ /\ Cardinality(ts'.nodes \ ts.nodes) <= 1
        /\ \A x \in ts'.nodes \ {initConf} :
              /\ \E e \in ts'.edges : e[2] = x
              /\ x \in TsReachable(ts')
        /\ \A e \in ts'.edges : e[1] # e[2] ]_vars

\* four vertices, one of them two edges or more away from the initial one,
\* and an iteration that added none
C37_Witness ==
    /\ Cardinality(ts.nodes) >= 4
    /\ \E x \in ts.nodes :
          x # initConf /\ << initConf, x >> \notin ts.edges
    /\ iteration > Cardinality(ts.nodes) - 1

ExecuteStep == calls' = calls + 1

\* C1: after any sequence of execute calls every entry of buchi_states is
\* a non-empty set of Buchi states, the entries appended for the straight
\* chain from the accepted leaf to the global target included.
C1_BuchiStatesNonEmpty ==
    \A i \in 1 .. Len(buchi_states) : buchi_states[i] # {}

\* C8: after an execute call whose requests snapshot is non-empty,
\* tracking_req is a member of the snapshot of least priority value.
C8_TrackingInSnapshot ==
    (calls > 0 /\ check_result # "none" /\ requests # {}) =>
        /\ tracking_req \in requests
        /\ \A r \in requests : tracking_req.priority <= r.priority

\* C9: an execute call with an empty requests snapshot leaves tracking_req
\* None, and its check_local_plan returns True iff the local plan it found
\* is non-empty and collision-free against the obstacle snapshot.
C9_EmptySnapshotCheck ==
    [][ (ExecuteStep /\ requests' = {} /\ check_result' # "none") =>
            /\ tracking_req' = None
            /\ check_result' \in {"True", "False"}
            /\ check_result' = "True" <=>
                  (local_plan # << >> /\ CollisionFree(local_plan, obstacles')) ]_vars

\* C9 witness: with no request but an obstacle sensed, the plan left from
\* tracking a request passed the check
C9_Witness ==
    /\ requests = {} /\ obstacles # {} /\ check_result = "True"
    /\ tracking_req = None /\ lts # << >>

\* the product edges leaving the robot's vertex from a tracked Buchi state
TrackedOutEdges ==
    { e \in pa.pedges :
        e[1][1] = currentConf /\ e[1][2] \in Last(buchi_states) }

\* p lies on the straight segment between a and b
OnSegment(p, a, b) == Min(a, b) <= p /\ p <= a + b - Min(a, b)

\* C10: an execute call made at a TS vertex x sets global_target_state to
\* the TS component of a minimum-potential product successor of the tracked
\* product states of x, and with empty request and obstacle snapshots the
\* configuration it returns lies on the segment from x to that target.
C10_AdvancesToMinPotential ==
    [][ (ExecuteStep /\ currentConf \in ts.nodes /\ online_pc' = "move") =>
            /\ \E e \in TrackedOutEdges :
                  /\ e[2][1] = global_target_state'
                  /\ \A f \in TrackedOutEdges :
                        pa_potential[e[2]] <= pa_potential[f[2]]
            /\ (requests' = {} /\ obstacles' = {}) =>
                  OnSegment(nextConf', currentConf, global_target_state') ]_vars

\* C11: an execute call made at a TS vertex whose last recorded potential
\* is 0 while the minimum-potential successor has potential 0 too does not
\* fail and sets global_target_state to a successor of positive potential.
C11_TieBreakAdvances ==
    [][ ( /\ ExecuteStep /\ currentConf \in ts.nodes
          /\ Last(potential) = 0
          /\ \E e \in TrackedOutEdges : pa_potential[e[2]] = 0 ) =>
            /\ online_pc' # "raised"
            /\ \E e \in TrackedOutEdges :
                  /\ e[2][1] = global_target_state'
                  /\ pa_potential[e[2]] > 0 ]_vars

\* C12: generate_local_plan called with no requests returns the straight
\* chain to global_target_state, without building a tree, exactly when the
\* segment from the current configuration to the target is simple and
\* collision-free; otherwise it grows a tree, and it never fails.
C12_FastPathExactly ==
    [][ (ExecuteStep /\ requests' = {} /\ generated'.branch # "none") =>
            LET direct ==
                  /\ IsSimpleSegment(currentConf, global_target_state')
                  /\ CollisionFreeSegment(currentConf, global_target_state',
                                          obstacles')
            IN  /\ generated'.branch # "raised"
                /\ generated'.branch = "chain" <=> direct
                /\ generated'.branch = "chain" =>
                      /\ << nextConf' >> \o local_plan'
                            = Chain(currentConf, global_target_state')
                      /\ lts' = lts
                /\ ~direct => generated'.branch = "tree" ]_vars

\* the plan execute is left with, from the robot's configuration on
PlanFromCurrent(conf, next, rest) == << conf, next >> \o rest

\* C13: for every plan produced by the tree-growth branch of
\* generate_local_plan, every consecutive pair of configurations, starting
\* from the robot's current configuration, is a simple segment free of the
\* obstacles of that call, and the plan ends at global_target_state.
C13_TreePlanSegments ==
    [][ (ExecuteStep /\ generated'.branch = "tree") =>
            LET plan == PlanFromCurrent(currentConf, nextConf', local_plan')
            IN  /\ \A i \in 1 .. (Len(plan) - 1) :
                      /\ IsSimpleSegment(plan[i], plan[i + 1])
                      /\ CollisionFreeSegment(plan[i], plan[i + 1], obstacles')
                /\ Last(plan) = global_target_state' ]_vars

\* a tree plan with a tree part was generated while an obstacle was sensed
C13_Witness ==
    /\ online_pc = "move" /\ generated.branch = "tree"
    /\ obstacles # {}
    /\ generated.dest_state # currentConf
    /\ Len(local_plan) >= 2

\* the configurations of the tree part of the plan generated last
TreePart(tree, root, gen) ==
    IF gen.branch = "tree"
    THEN { PathTo(tree, root, gen.dest_state)[i] :
             i \in 1 .. Len(PathTo(tree, root, gen.dest_state)) }
    ELSE {}

\* C14: whenever generate_local_plan returns while a request is tracked, the
\* robot's configuration or a configuration of the tree part of the plan
\* carries the tracked request's name as a local proposition, the accepted
\* leaf has hit = true, and the plan goes on to global_target_state, which
\* generate_local_plan leaves as execute set it.
C14_TrackedRequestHit ==
    [][ ( /\ ExecuteStep /\ generated'.branch \in {"chain", "tree"}
          /\ tracking_req' # None ) =>
            /\ generated'.branch = "tree"
            /\ lts'[generated'.dest_state].hit
            /\ \E conf \in {currentConf}
                             \cup TreePart(lts', currentConf, generated') :
                  tracking_req'.name \in LocalSymbols(requests', conf)
            /\ Last(PlanFromCurrent(currentConf, nextConf', local_plan'))
                  = global_target_state'
            /\ currentConf \notin ts.nodes =>
                  global_target_state' = global_target_state ]_vars

\* a plan was generated whose tree part, not the robot's configuration,
\* reaches the tracked request
C14_Witness ==
    /\ online_pc = "move" /\ generated.branch = "tree"
    /\ tracking_req # None
    /\ tracking_req.name \notin LocalSymbols(requests, currentConf)
    /\ lts[generated.dest_state].hit
    /\ currentConf \notin ts.nodes

\* consecutive vertices of path are joined by edges
FollowsEdges(path, edges) ==
    \A i \in 1 .. (Len(path) - 1) : << path[i], path[i + 1] >> \in edges

\* C18: globalPolicy called with found_policy() true returns (prefix,
\* suffix), prefix the projection of a product path from an initial vertex
\* to an accepting vertex q*, suffix the projection of a product cycle that
\* starts and ends at q*, so suffix[0] = suffix[-1] = prefix[-1], and every
\* consecutive pair of either is an edge of the TS.
C18_PolicyIsLasso ==
    /\ [] ( FoundPolicy(pa.pnodes, pa.pedges, pa.pinit) =>
               GlobalPolicy(pa.pnodes, pa.pedges, pa.pinit) # {} )
    /\ [][ HostGlobalPolicy =>
             LET r == fn_result'
                 q == Last(r.pa_prefix)
             IN  /\ r.pa_prefix[1] \in pa.pinit
                 /\ q \in pa.pnodes /\ q[2] \in BuchiAccepting
                 /\ FollowsEdges(r.pa_prefix, pa.pedges)
                 /\ Len(r.pa_suffix) >= 2
                 /\ r.pa_suffix[1] = q /\ Last(r.pa_suffix) = q
                 /\ FollowsEdges(r.pa_suffix, pa.pedges)
                 /\ r.prefix = Projection(r.pa_prefix)
                 /\ r.suffix = Projection(r.pa_suffix)
                 /\ r.suffix[1] = Last(r.prefix)
                 /\ Last(r.suffix) = Last(r.prefix)
                 /\ FollowsEdges(r.prefix, ts.edges)
                 /\ FollowsEdges(r.suffix, ts.edges) ]_vars

\* a policy was returned whose prefix and suffix both hold several edges
C18_Witness ==
    /\ fn_pc = "returned"
    /\ Len(fn_result.prefix) >= 3
    /\ Len(fn_result.suffix) >= 3

\* C19: no execute call adds, removes or relabels a vertex or an edge of
\* the global TS or of the product automaton, or changes a stored potential.
C19_ExecuteKeepsGlobal ==
    [][ ExecuteStep =>
          /\ ts' = ts
          /\ pa' = pa
          /\ pa_potential' = pa_potential ]_vars

\* an execute call made at a TS vertex grew a local tree of several vertices
C19_Witness ==
    /\ online_pc = "move" /\ currentConf \in ts.nodes
    /\ generated.branch = "tree"
    /\ Cardinality(DOMAIN lts) >= 3

\* the TS vertices the backward extension can join the new vertex n to
BackwardCandidates(n) ==
    { v \in ts.nodes : /\ 0 < Dist(v, n) /\ Dist(v, n) < EtaHi
                       /\ v = Steer(n, v)
                       /\ IsSimpleSegment(n, v) }

\* C20: within one iterate call the new vertex, the forward TS edges and the
\* forward product edges are committed before the backward extension runs,
\* so the backward checks see the product vertices the forward phase made:
\* every Buchi move from such a vertex (n, q) to a product vertex of a TS
\* vertex near n is an edge of the product after the call, with its TS edge.
C20_BackwardSeesForward ==
    [][ \A n \in ts'.nodes \ ts.nodes :
          /\ \E s \in ts.nodes : << s, n >> \in ts'.edges
          /\ ProjTs(pa'.pnodes, n) # {}
          /\ \A v \in BackwardCandidates(n) :
               \A q \in ProjTs(pa'.pnodes, n) :
                 \A q2 \in NextStates(q, ts.prop[v]) \cap ProjTs(pa.pnodes, v) :
                    /\ << <<n, q>>, <<v, q2>> >> \in pa'.pedges
                    /\ << n, v >> \in ts'.edges ]_vars

\* some TS edge has its reverse, added by a backward extension, and the
\* product follows both
C20_Witness ==
    \E e \in ts.edges :
        /\ << e[2], e[1] >> \in ts.edges
        /\ \E pe \in pa.pedges : pe[1][1] = e[1] /\ pe[2][1] = e[2]
        /\ \E pe \in pa.pedges : pe[1][1] = e[2] /\ pe[2][1] = e[1]

\* C24: an execute call decides on the snapshot passed to it: when it
\* returns, tracking_req is None or a request of that snapshot.
C24_TrackingFromSnapshot ==
    [][ (ExecuteStep /\ online_pc' = "move") =>
            \/ tracking_req' = None
            \/ tracking_req' \in requests' ]_vars

\* C31: the configuration an execute call returns differs from the robot's
\* current configuration, and the global target the call chooses at a TS
\* vertex differs from that vertex.
C31_ReturnsAnotherConf ==
    [][ (ExecuteStep /\ online_pc' = "move") =>
           /\ nextConf' # currentConf
           /\ currentConf \in ts.nodes => global_target_state' # currentConf
      ]_vars

\* an execute call made at a TS vertex returned the first point of a
\* straight chain, a configuration that is not a TS vertex
C31_Witness ==
    /\ online_pc = "move" /\ generated.branch = "chain"
    /\ currentConf \in ts.nodes
    /\ nextConf \notin ts.nodes
    /\ calls >= 2

\* C32: whenever an execute call reaches check_local_plan with a non-empty
\* local_plan, the last configuration of the plan is a vertex of the global
\* TS and equals the global_target_state the call works with.
C32_PlanEndsInTarget ==
    [][ (ExecuteStep /\ check_result' # "none" /\ local_plan # << >>) =>
           /\ Last(local_plan) \in ts.nodes
           /\ Last(local_plan) = global_target_state' ]_vars

\* C33: after the k-th successful execute call trajectory and buchi_states
\* have length k + 1 and durations and sizes length k; the configuration the
\* call returned is the last of trajectory and no longer heads local_plan,
\* and the call appended a potential entry iff that configuration is a
\* vertex of the global TS.
C33_HistoriesInStep ==
    [][ (ExecuteStep /\ online_pc' = "move") =>
           /\ Len(trajectory') = calls' + 1
           /\ Len(buchi_states') = calls' + 1
           /\ Len(durations') = calls'
           /\ Len(sizes') = calls'
           /\ nextConf' = trajectory'[calls' + 1]
           /\ local_plan' = << >> \/ local_plan'[1] # nextConf'
           /\ check_result' = "True" =>
                 local_plan = << nextConf' >> \o local_plan'
           /\ Len(potential') =
                 Len(potential) + IF nextConf' \in ts.nodes THEN 1 ELSE 0
      ]_vars

\* three calls or more returned, the last one a TS vertex taken from a plan
\* that was kept, an earlier one a configuration that is not a TS vertex
C33_Witness ==
    /\ online_pc = "move" /\ calls >= 3
    /\ check_result = "True"
    /\ nextConf \in ts.nodes
    /\ \E i \in 1 .. Len(trajectory) : trajectory[i] \notin ts.nodes
    /\ \E i \in 1 .. Len(sizes) : sizes[i] > 0

\* C34: an execute call made while the robot's configuration is not a
\* vertex of the global TS leaves global_target_state as it was, whether
\* the call returns or raises and whether or not it generates a plan.
C34_TargetKeptOffVertex ==
    [][ (ExecuteStep /\ currentConf \notin ts.nodes) =>
           global_target_state' = global_target_state ]_vars

\* a call made away from the TS vertices generated a new plan from a tree,
\* for a target that is not the initial configuration
C34_Witness ==
    /\ online_pc = "move" /\ calls >= 2
    /\ currentConf \notin ts.nodes
    /\ check_result = "False"
    /\ generated.branch = "tree"
    /\ global_target_state # trajectory[1]

\* C35: at every execute call made while the robot is at a TS vertex x, the
\* tracked Buchi set holds some q with (x, q) a product vertex, a product
\* edge leaves such a vertex, the potential recorded last is finite, and
\* min_potential_global_state does not fail.
C35_VertexHasCandidate ==
    [][ (ExecuteStep /\ currentConf \in ts.nodes) =>
           /\ \E q \in Last(buchi_states) : << currentConf, q >> \in pa.pnodes
           /\ \E e \in TrackedOutEdges : e[1] \in pa.pnodes
           /\ Last(potential) < Inf
           /\ check_result' # "none" ]_vars

\* C36: in a run whose execute calls all receive empty request and obstacle
\* snapshots, no execute call fails, so that waypoints keep being recorded,
\* and a potential recorded after a positive one is strictly smaller.
C36_PotentialsDescend ==
    [][ ExecuteStep =>
           /\ online_pc' = "move"
           /\ (Len(potential') > Len(potential) /\ Last(potential) > 0) =>
                 Last(potential') < Last(potential) ]_vars

(***************************************************************************)
(* Properties of the functions called on their own.                        *)
(***************************************************************************)
\* C15: monitor returns the set it was given when the two propositions are
\* equal, and otherwise exactly the union of next_states(q, stop_prop) over
\* the states q it was given, which is empty for an empty set; the set
\* passed in is the same after the call.
C15_MonitorResult ==
    [][ CallMonitor =>
          /\ fn_args.start_prop = fn_args.stop_prop =>
                fn_result' = fn_args.start
          /\ fn_args.start_prop # fn_args.stop_prop =>
                /\ \A q2 \in BuchiStates :
                      q2 \in fn_result' <=>
                         \E q \in fn_args.start :
                            q2 \in NextStates(q, fn_args.stop_prop)
                /\ fn_args.start = {} => fn_result' = {}
          /\ fn_args' = fn_args ]_vars

\* monitor returned fewer states than it was given, the propositions
\* differing
C15_Witness ==
    /\ fn_pc = "returned"
    /\ fn_args.start_prop # fn_args.stop_prop
    /\ Cardinality(fn_args.start) = 2
    /\ Cardinality(fn_result) = 1

\* the successors of product vertex p
Successors(p, pedges) == { e[2] : e \in { ee \in pedges : ee[1] = p } }

\* p lies on a cycle that holds an accepting vertex
OnAcceptingCycle(p, pedges) ==
    \E a \in ReachableFrom({p}, pedges) :
        /\ a[2] \in BuchiAccepting
        /\ p \in ReachableFrom(Successors(a, pedges), pedges)

\* C16: after compute_potentials the potential of a product vertex is 0 iff
\* the vertex lies on an accepting cycle, it is finite iff the vertex can
\* reach such a cycle, and a vertex of positive finite potential has
\* potential 1 + the least potential among its successors.
C16_PotentialsAreDistances ==
    fn_pc = "returned" =>
        LET pot == fn_result.potential
            pedges == fn_args.pedges
        IN  \A p \in fn_args.pnodes :
              /\ pot[p] = 0 <=> OnAcceptingCycle(p, pedges)
              /\ pot[p] < Inf <=>
                    \E c \in ReachableFrom({p}, pedges) :
                        OnAcceptingCycle(c, pedges)
              /\ (0 < pot[p] /\ pot[p] < Inf) =>
                    /\ Successors(p, pedges) # {}
                    /\ pot[p] = 1 + MinOf({ pot[n] :
                                             n \in Successors(p, pedges) })

\* potentials 2, 1 and 0 on one automaton
C16_Witness ==
    /\ fn_pc = "returned"
    /\ \A k \in 0 .. 2 :
          \E p \in fn_args.pnodes : fn_result.potential[p] = k

\* C17: compute_potentials returns true whenever found_policy() is true of
\* the product it is called on, and it returns false iff the product has no
\* accepting cycle.
C17_PotentialsReturn ==
    fn_pc = "returned" =>
        /\ FoundPolicy(fn_args.pnodes, fn_args.pedges, fn_args.pinit) =>
              fn_result.ret
        /\ ~fn_result.ret <=>
              \A p \in fn_args.pnodes : ~OnAcceptingCycle(p, fn_args.pedges)

\* compute_potentials returned true on a product with a policy
C17_Witness ==
    /\ fn_pc = "returned"
    /\ FoundPolicy(fn_args.pnodes, fn_args.pedges, fn_args.pinit)
    /\ fn_result.ret
    /\ \E p \in fn_args.pnodes : fn_result.potential[p] = Inf

\* C22: a box whose lower bound equals its upper bound in some dimension
\* and a ball of radius <= 0 both fail to construct.
C22_DegenerateRejected ==
    fn_pc = "returned" =>
        /\ ( /\ fn_result.cls = "BoxBoundary2D"
             /\ \E i \in 1 .. 2 :
                   fn_args.ranges[i][1] = fn_args.ranges[i][2] ) =>
              fn_result.raised
        /\ (fn_result.cls = "BallBoundary2D" /\ fn_args.radius <= 0) =>
              fn_result.raised

\* C23: after any sequence of Workspace construction, addRegion and
\* removeRegion calls the global and the local symbol set are disjoint.
C23_SymbolSetsDisjoint ==
    fn_args.globalSymbols \cap fn_args.localSymbols = {}


\* the closed segment from src to dest shares a point with the box: the
\* per-axis parameter intervals, low and high swapped on an axis along
\* which the coordinate decreases, meet each other and [0, 1]
SegmentMeetsBox(ranges, src, dest) ==
    LET diff == << dest[1] - src[1], dest[2] - src[2] >>
        moving == { i \in 1 .. 2 : diff[i] # 0 }
        lo(i) == IF diff[i] > 0 THEN << ranges[i][1] - src[i], diff[i] >>
                 ELSE << ranges[i][2] - src[i], diff[i] >>
        hi(i) == IF diff[i] > 0 THEN << ranges[i][2] - src[i], diff[i] >>
                 ELSE << ranges[i][1] - src[i], diff[i] >>
        L == { << 0, 1 >> } \cup { lo(i) : i \in moving }
        H == { << 1, 1 >> } \cup { hi(i) : i \in moving }
    IN  /\ \A i \in (1 .. 2) \ moving :
              ranges[i][1] <= src[i] /\ src[i] <= ranges[i][2]
        /\ \A l \in L : \A h \in H : FracLeq(l, h)

\* C29: BoxBoundary2D.intersects(src, dest) returns, and returns true
\* exactly when the closed segment from src to dest shares a point with
\* the box, whatever the direction of travel.
C29_IntersectsIsGeometric ==
    (fn_pc # "args" /\ fn_args.dest # << >>) =>
        /\ fn_pc = "returned"
        /\ fn_result <=> SegmentMeetsBox(fn_args.ranges, fn_args.src,
                                         fn_args.dest)


\* the regions currently in the selected layer of the workspace
LayerRegions(ws, local) ==
    IF local THEN Elements(ws.localRegions) ELSE ws.globalRegions

\* C30: after any sequence of addRegion and removeRegion calls, getSymbols
\* without a position returns the union of the symbols of the regions
\* currently in the selected layer, and with a position the union of the
\* symbols of the regions of that layer containing the position.
C30_GetSymbolsIsCurrent ==
    [][ \A position \in Positions, local \in BOOLEAN :
           CallGetSymbols(position, local) =>
              fn_result' =
                 IF position = << >>
                 THEN SymbolsOf(LayerRegions(fn_args, local))
                 ELSE RegionSymbols(LayerRegions(fn_args, local),
                                    position[1]) ]_vars

=============================================================================
